---- MODULE Spec2Model ----
(***************************************************************************)
(* http-response-kit: the status-code definition tables and their          *)
(* resolvers, the process-wide configuration store, the HttpError value    *)
(* and the HttpResponse envelope builders, as a state machine.             *)
(*                                                                         *)
(* JavaScript values are modelled as follows.  An optional value (one that *)
(* may be undefined) is a sequence of length at most one: <<>> is          *)
(* undefined and <<v>> is the value v.  An object is a function from its   *)
(* own keys to their values, so "key in DOMAIN obj" is "obj has the key".  *)
(* HttpError instances live in heap; a reference is an index into heap,    *)
(* and two references are the same object exactly when the indices agree.  *)
(* The configuration objects are modelled by their contents; aliases tells *)
(* which of them hold the same customMessages object, so that a write      *)
(* through one of them shows in the others.                                *)
(***************************************************************************)
EXTENDS Integers, Sequences, FiniteSets, TLC

VARIABLES
    nodeEnv,        \* process.env.NODE_ENV
    defaultConfig,  \* config/index.ts defaultConfig, evaluated once at import
    currentConfig,  \* config/index.ts currentConfig
    heap,           \* the HttpError instances constructed so far
    devConfigured,  \* history: the isDevelopment that configure() supplied last
                    \* since the import or the last resetConfig(), if any
    last,           \* the most recent call: operation, arguments, outcome
    snapshot,       \* the object the most recent getConfig() returned, if any
    aliases         \* the pairs of defaultConfig, currentConfig and snapshot
                    \* whose customMessages is one and the same object

vars == <<nodeEnv, defaultConfig, currentConfig, heap, devConfigured, last,
          snapshot, aliases>>

(***************************************************************************)
(* Bounds of the model.                                                    *)
(***************************************************************************)
MaxErrors == 2

(***************************************************************************)
(* JavaScript helpers.                                                     *)
(***************************************************************************)
None == <<>>
Some(v) == <<v>>

\* a ?? b on optional values
Nullish(a, b) == IF a # None THEN a ELSE b

\* obj[key] (obj.key): undefined when obj has no such key
Prop(obj, key) == IF key \in DOMAIN obj THEN Some(obj[key]) ELSE None

\* an options bag's field: a key that is absent reads as undefined
Opt(options, key) == IF key \in DOMAIN options THEN options[key] ELSE None

\* { ...a, ...b } and Object.assign(a, b): b's keys win
Spread(a, b) ==
    [k \in DOMAIN a \cup DOMAIN b |-> IF k \in DOMAIN b THEN b[k] ELSE a[k]]

EmptyObject == [k \in {} |-> TRUE]

\* the function f without the keys in ks
Without(f, ks) == [k \in (DOMAIN f) \ ks |-> f[k]]

(***************************************************************************)
(* constants/error-definitions.ts and constants/success-definitions.ts     *)
(***************************************************************************)
\* constants/status-codes.ts: the enums whose members key the tables.  The
\* members' numbers are the ones HTTP assigns to the names.
HttpClientErrorCode ==
    [BAD_REQUEST |-> 400, UNAUTHORIZED |-> 401, PAYMENT_REQUIRED |-> 402,
     FORBIDDEN |-> 403, NOT_FOUND |-> 404, METHOD_NOT_ALLOWED |-> 405,
     NOT_ACCEPTABLE |-> 406, PROXY_AUTHENTICATION_REQUIRED |-> 407,
     REQUEST_TIMEOUT |-> 408, CONFLICT |-> 409, GONE |-> 410,
     LENGTH_REQUIRED |-> 411, PRECONDITION_FAILED |-> 412,
     PAYLOAD_TOO_LARGE |-> 413, URI_TOO_LONG |-> 414,
     UNSUPPORTED_MEDIA_TYPE |-> 415, RANGE_NOT_SATISFIABLE |-> 416,
     EXPECTATION_FAILED |-> 417, IM_A_TEAPOT |-> 418,
     MISDIRECTED_REQUEST |-> 421, UNPROCESSABLE_ENTITY |-> 422,
     LOCKED |-> 423, FAILED_DEPENDENCY |-> 424, TOO_EARLY |-> 425,
     UPGRADE_REQUIRED |-> 426, PRECONDITION_REQUIRED |-> 428,
     TOO_MANY_REQUESTS |-> 429, REQUEST_HEADER_FIELDS_TOO_LARGE |-> 431,
     UNAVAILABLE_FOR_LEGAL_REASONS |-> 451]
HttpServerErrorCode ==
    [INTERNAL_SERVER_ERROR |-> 500, NOT_IMPLEMENTED |-> 501,
     BAD_GATEWAY |-> 502, SERVICE_UNAVAILABLE |-> 503,
     GATEWAY_TIMEOUT |-> 504, HTTP_VERSION_NOT_SUPPORTED |-> 505,
     VARIANT_ALSO_NEGOTIATES |-> 506, INSUFFICIENT_STORAGE |-> 507,
     LOOP_DETECTED |-> 508, BANDWIDTH_LIMIT_EXCEEDED |-> 509,
     NOT_EXTENDED |-> 510, NETWORK_AUTHENTICATION_REQUIRED |-> 511]
HttpSuccessCode ==
    [OK |-> 200, CREATED |-> 201, ACCEPTED |-> 202,
     NON_AUTHORITATIVE_INFORMATION |-> 203, NO_CONTENT |-> 204,
     RESET_CONTENT |-> 205, PARTIAL_CONTENT |-> 206, MULTI_STATUS |-> 207,
     ALREADY_REPORTED |-> 208, IM_USED |-> 226]
HttpRedirectCode ==
    [MULTIPLE_CHOICES |-> 300, MOVED_PERMANENTLY |-> 301, FOUND |-> 302,
     SEE_OTHER |-> 303, NOT_MODIFIED |-> 304, USE_PROXY |-> 305,
     TEMPORARY_REDIRECT |-> 307, PERMANENT_REDIRECT |-> 308]
HttpInfoCode ==
    [CONTINUE |-> 100, SWITCHING_PROTOCOLS |-> 101, PROCESSING |-> 102,
     EARLY_HINTS |-> 103]

HttpErrorDefinitions ==
    [code \in
      {HttpClientErrorCode.BAD_REQUEST,
       HttpClientErrorCode.UNAUTHORIZED,
       HttpClientErrorCode.PAYMENT_REQUIRED,
       HttpClientErrorCode.FORBIDDEN,
       HttpClientErrorCode.NOT_FOUND,
       HttpClientErrorCode.METHOD_NOT_ALLOWED,
       HttpClientErrorCode.NOT_ACCEPTABLE,
       HttpClientErrorCode.PROXY_AUTHENTICATION_REQUIRED,
       HttpClientErrorCode.REQUEST_TIMEOUT,
       HttpClientErrorCode.CONFLICT,
       HttpClientErrorCode.GONE,
       HttpClientErrorCode.LENGTH_REQUIRED,
       HttpClientErrorCode.PRECONDITION_FAILED,
       HttpClientErrorCode.PAYLOAD_TOO_LARGE,
       HttpClientErrorCode.URI_TOO_LONG,
       HttpClientErrorCode.UNSUPPORTED_MEDIA_TYPE,
       HttpClientErrorCode.RANGE_NOT_SATISFIABLE,
       HttpClientErrorCode.EXPECTATION_FAILED,
       HttpClientErrorCode.IM_A_TEAPOT,
       HttpClientErrorCode.MISDIRECTED_REQUEST,
       HttpClientErrorCode.UNPROCESSABLE_ENTITY,
       HttpClientErrorCode.LOCKED,
       HttpClientErrorCode.FAILED_DEPENDENCY,
       HttpClientErrorCode.TOO_EARLY,
       HttpClientErrorCode.UPGRADE_REQUIRED,
       HttpClientErrorCode.PRECONDITION_REQUIRED,
       HttpClientErrorCode.TOO_MANY_REQUESTS,
       HttpClientErrorCode.REQUEST_HEADER_FIELDS_TOO_LARGE,
       HttpClientErrorCode.UNAVAILABLE_FOR_LEGAL_REASONS,
       HttpServerErrorCode.INTERNAL_SERVER_ERROR,
       HttpServerErrorCode.NOT_IMPLEMENTED,
       HttpServerErrorCode.BAD_GATEWAY,
       HttpServerErrorCode.SERVICE_UNAVAILABLE,
       HttpServerErrorCode.GATEWAY_TIMEOUT,
       HttpServerErrorCode.HTTP_VERSION_NOT_SUPPORTED,
       HttpServerErrorCode.VARIANT_ALSO_NEGOTIATES,
       HttpServerErrorCode.INSUFFICIENT_STORAGE,
       HttpServerErrorCode.LOOP_DETECTED,
       HttpServerErrorCode.BANDWIDTH_LIMIT_EXCEEDED,
       HttpServerErrorCode.NOT_EXTENDED,
       HttpServerErrorCode.NETWORK_AUTHENTICATION_REQUIRED} |->
        CASE code = HttpClientErrorCode.BAD_REQUEST ->
              [type |-> "bad_request", title |-> "Bad Request", code |-> 400, details |-> "The request cannot be processed due to invalid syntax or missing parameters."]
          [] code = HttpClientErrorCode.UNAUTHORIZED ->
              [type |-> "unauthorized", title |-> "Unauthorized", code |-> 401, details |-> "Authentication is required and has failed or not yet been provided."]
          [] code = HttpClientErrorCode.PAYMENT_REQUIRED ->
              [type |-> "payment_required", title |-> "Payment Required", code |-> 402, details |-> "Payment is required to access this resource."]
          [] code = HttpClientErrorCode.FORBIDDEN ->
              [type |-> "forbidden", title |-> "Forbidden", code |-> 403, details |-> "The server understood the request but refuses to authorize it."]
          [] code = HttpClientErrorCode.NOT_FOUND ->
              [type |-> "not_found", title |-> "Not Found", code |-> 404, details |-> "The requested resource could not be found."]
          [] code = HttpClientErrorCode.METHOD_NOT_ALLOWED ->
              [type |-> "method_not_allowed", title |-> "Method Not Allowed", code |-> 405, details |-> "The method specified in the request is not allowed for the resource."]
          [] code = HttpClientErrorCode.NOT_ACCEPTABLE ->
              [type |-> "not_acceptable", title |-> "Not Acceptable", code |-> 406, details |-> "The resource is not available in a format acceptable to the client."]
          [] code = HttpClientErrorCode.PROXY_AUTHENTICATION_REQUIRED ->
              [type |-> "proxy_authentication_required", title |-> "Proxy Authentication Required", code |-> 407, details |-> "Authentication with the proxy is required."]
          [] code = HttpClientErrorCode.REQUEST_TIMEOUT ->
              [type |-> "request_timeout", title |-> "Request Timeout", code |-> 408, details |-> "The server timed out waiting for the request."]
          [] code = HttpClientErrorCode.CONFLICT ->
              [type |-> "conflict", title |-> "Conflict", code |-> 409, details |-> "The request conflicts with the current state of the resource."]
          [] code = HttpClientErrorCode.GONE ->
              [type |-> "gone", title |-> "Gone", code |-> 410, details |-> "The requested resource is no longer available and will not be available again."]
          [] code = HttpClientErrorCode.LENGTH_REQUIRED ->
              [type |-> "length_required", title |-> "Length Required", code |-> 411, details |-> "The request did not specify the length of its content, which is required."]
          [] code = HttpClientErrorCode.PRECONDITION_FAILED ->
              [type |-> "precondition_failed", title |-> "Precondition Failed", code |-> 412, details |-> "One or more conditions in the request header fields evaluated to false."]
          [] code = HttpClientErrorCode.PAYLOAD_TOO_LARGE ->
              [type |-> "payload_too_large", title |-> "Payload Too Large", code |-> 413, details |-> "The request payload is larger than the server is willing to process."]
          [] code = HttpClientErrorCode.URI_TOO_LONG ->
              [type |-> "uri_too_long", title |-> "URI Too Long", code |-> 414, details |-> "The URI provided was too long for the server to process."]
          [] code = HttpClientErrorCode.UNSUPPORTED_MEDIA_TYPE ->
              [type |-> "unsupported_media_type", title |-> "Unsupported Media Type", code |-> 415, details |-> "The media format of the requested data is not supported by the server."]
          [] code = HttpClientErrorCode.RANGE_NOT_SATISFIABLE ->
              [type |-> "range_not_satisfiable", title |-> "Range Not Satisfiable", code |-> 416, details |-> "The range specified in the request header cannot be fulfilled."]
          [] code = HttpClientErrorCode.EXPECTATION_FAILED ->
              [type |-> "expectation_failed", title |-> "Expectation Failed", code |-> 417, details |-> "The server cannot meet the requirements of the Expect request-header field."]
          [] code = HttpClientErrorCode.IM_A_TEAPOT ->
              [type |-> "im_a_teapot", title |-> "I'm a Teapot", code |-> 418, details |-> "The server refuses to brew coffee because it is, permanently, a teapot."]
          [] code = HttpClientErrorCode.MISDIRECTED_REQUEST ->
              [type |-> "misdirected_request", title |-> "Misdirected Request", code |-> 421, details |-> "The request was directed at a server that is not able to produce a response."]
          [] code = HttpClientErrorCode.UNPROCESSABLE_ENTITY ->
              [type |-> "unprocessable_entity", title |-> "Unprocessable Entity", code |-> 422, details |-> "The request was well-formed but was unable to be followed due to semantic errors."]
          [] code = HttpClientErrorCode.LOCKED ->
              [type |-> "locked", title |-> "Locked", code |-> 423, details |-> "The resource that is being accessed is locked."]
          [] code = HttpClientErrorCode.FAILED_DEPENDENCY ->
              [type |-> "failed_dependency", title |-> "Failed Dependency", code |-> 424, details |-> "The request failed because it depended on another request that failed."]
          [] code = HttpClientErrorCode.TOO_EARLY ->
              [type |-> "too_early", title |-> "Too Early", code |-> 425, details |-> "The server is unwilling to risk processing a request that might be replayed."]
          [] code = HttpClientErrorCode.UPGRADE_REQUIRED ->
              [type |-> "upgrade_required", title |-> "Upgrade Required", code |-> 426, details |-> "The client should switch to a different protocol."]
          [] code = HttpClientErrorCode.PRECONDITION_REQUIRED ->
              [type |-> "precondition_required", title |-> "Precondition Required", code |-> 428, details |-> "The origin server requires the request to be conditional."]
          [] code = HttpClientErrorCode.TOO_MANY_REQUESTS ->
              [type |-> "too_many_requests", title |-> "Too Many Requests", code |-> 429, details |-> "The user has sent too many requests in a given amount of time.", retryAfter |-> 60]
          [] code = HttpClientErrorCode.REQUEST_HEADER_FIELDS_TOO_LARGE ->
              [type |-> "request_header_fields_too_large", title |-> "Request Header Fields Too Large", code |-> 431, details |-> "The server is unwilling to process the request because its header fields are too large."]
          [] code = HttpClientErrorCode.UNAVAILABLE_FOR_LEGAL_REASONS ->
              [type |-> "unavailable_for_legal_reasons", title |-> "Unavailable For Legal Reasons", code |-> 451, details |-> "The resource is unavailable due to legal demands."]
          [] code = HttpServerErrorCode.INTERNAL_SERVER_ERROR ->
              [type |-> "internal_server_error", title |-> "Internal Server Error", code |-> 500, details |-> "An unexpected error occurred on the server."]
          [] code = HttpServerErrorCode.NOT_IMPLEMENTED ->
              [type |-> "not_implemented", title |-> "Not Implemented", code |-> 501, details |-> "The server does not support the functionality required to fulfill the request."]
          [] code = HttpServerErrorCode.BAD_GATEWAY ->
              [type |-> "bad_gateway", title |-> "Bad Gateway", code |-> 502, details |-> "The server received an invalid response from an upstream server."]
          [] code = HttpServerErrorCode.SERVICE_UNAVAILABLE ->
              [type |-> "service_unavailable", title |-> "Service Unavailable", code |-> 503, details |-> "The server is currently unable to handle the request due to temporary overloading or maintenance.", retryAfter |-> 60, resolution |-> "Try again after a short period or contact support."]
          [] code = HttpServerErrorCode.GATEWAY_TIMEOUT ->
              [type |-> "gateway_timeout", title |-> "Gateway Timeout", code |-> 504, details |-> "The server did not receive a timely response from an upstream server."]
          [] code = HttpServerErrorCode.HTTP_VERSION_NOT_SUPPORTED ->
              [type |-> "http_version_not_supported", title |-> "HTTP Version Not Supported", code |-> 505, details |-> "The server does not support the HTTP protocol version used in the request."]
          [] code = HttpServerErrorCode.VARIANT_ALSO_NEGOTIATES ->
              [type |-> "variant_also_negotiates", title |-> "Variant Also Negotiates", code |-> 506, details |-> "The server has an internal configuration error during content negotiation."]
          [] code = HttpServerErrorCode.INSUFFICIENT_STORAGE ->
              [type |-> "insufficient_storage", title |-> "Insufficient Storage", code |-> 507, details |-> "The server is unable to store the representation needed to complete the request."]
          [] code = HttpServerErrorCode.LOOP_DETECTED ->
              [type |-> "loop_detected", title |-> "Loop Detected", code |-> 508, details |-> "The server detected an infinite loop while processing the request."]
          [] code = HttpServerErrorCode.BANDWIDTH_LIMIT_EXCEEDED ->
              [type |-> "bandwidth_limit_exceeded", title |-> "Bandwidth Limit Exceeded", code |-> 509, details |-> "The server has exceeded the bandwidth limit."]
          [] code = HttpServerErrorCode.NOT_EXTENDED ->
              [type |-> "not_extended", title |-> "Not Extended", code |-> 510, details |-> "Further extensions to the request are required for the server to fulfill it."]
          [] code = HttpServerErrorCode.NETWORK_AUTHENTICATION_REQUIRED ->
              [type |-> "network_authentication_required", title |-> "Network Authentication Required", code |-> 511, details |-> "The client needs to authenticate to gain network access."]]

HttpSuccessDefinitions ==
    [code \in
      {HttpSuccessCode.OK,
       HttpSuccessCode.CREATED,
       HttpSuccessCode.ACCEPTED,
       HttpSuccessCode.NON_AUTHORITATIVE_INFORMATION,
       HttpSuccessCode.NO_CONTENT,
       HttpSuccessCode.RESET_CONTENT,
       HttpSuccessCode.PARTIAL_CONTENT,
       HttpSuccessCode.MULTI_STATUS,
       HttpSuccessCode.ALREADY_REPORTED,
       HttpSuccessCode.IM_USED} |->
        CASE code = HttpSuccessCode.OK ->
              [code |-> 200, description |-> "The request has succeeded."]
          [] code = HttpSuccessCode.CREATED ->
              [code |-> 201, description |-> "The request has been fulfilled and resulted in a new resource being created."]
          [] code = HttpSuccessCode.ACCEPTED ->
              [code |-> 202, description |-> "The request has been accepted for processing, but the processing has not been completed."]
          [] code = HttpSuccessCode.NON_AUTHORITATIVE_INFORMATION ->
              [code |-> 203, description |-> "The returned meta-information is from a local or third-party copy."]
          [] code = HttpSuccessCode.NO_CONTENT ->
              [code |-> 204, description |-> "The server successfully processed the request and is not returning any content."]
          [] code = HttpSuccessCode.RESET_CONTENT ->
              [code |-> 205, description |-> "The server successfully processed the request and requires the requester to reset the document view."]
          [] code = HttpSuccessCode.PARTIAL_CONTENT ->
              [code |-> 206, description |-> "The server is delivering only part of the resource due to a range header sent by the client."]
          [] code = HttpSuccessCode.MULTI_STATUS ->
              [code |-> 207, description |-> "The message body contains multiple status codes for multiple independent operations."]
          [] code = HttpSuccessCode.ALREADY_REPORTED ->
              [code |-> 208, description |-> "The members of a DAV binding have already been enumerated in a preceding part of the response."]
          [] code = HttpSuccessCode.IM_USED ->
              [code |-> 226, description |-> "The server has fulfilled a GET request and the response is a representation of the result of one or more instance-manipulations."]]

HttpRedirectDefinitions ==
    [code \in
      {HttpRedirectCode.MULTIPLE_CHOICES,
       HttpRedirectCode.MOVED_PERMANENTLY,
       HttpRedirectCode.FOUND,
       HttpRedirectCode.SEE_OTHER,
       HttpRedirectCode.NOT_MODIFIED,
       HttpRedirectCode.USE_PROXY,
       HttpRedirectCode.TEMPORARY_REDIRECT,
       HttpRedirectCode.PERMANENT_REDIRECT} |->
        CASE code = HttpRedirectCode.MULTIPLE_CHOICES ->
              [code |-> 300, description |-> "The request has more than one possible response."]
          [] code = HttpRedirectCode.MOVED_PERMANENTLY ->
              [code |-> 301, description |-> "The URL of the requested resource has been changed permanently."]
          [] code = HttpRedirectCode.FOUND ->
              [code |-> 302, description |-> "The URI of the requested resource has been changed temporarily."]
          [] code = HttpRedirectCode.SEE_OTHER ->
              [code |-> 303, description |-> "The response can be found under another URI using the GET method."]
          [] code = HttpRedirectCode.NOT_MODIFIED ->
              [code |-> 304, description |-> "The resource has not been modified since the version specified by the request headers."]
          [] code = HttpRedirectCode.USE_PROXY ->
              [code |-> 305, description |-> "The requested resource must be accessed through the proxy."]
          [] code = HttpRedirectCode.TEMPORARY_REDIRECT ->
              [code |-> 307, description |-> "The request should be repeated with another URI but future requests should use the original URI."]
          [] code = HttpRedirectCode.PERMANENT_REDIRECT ->
              [code |-> 308, description |-> "The request and all future requests should be repeated using another URI."]]

HttpInfoDefinitions ==
    [code \in
      {HttpInfoCode.CONTINUE,
       HttpInfoCode.SWITCHING_PROTOCOLS,
       HttpInfoCode.PROCESSING,
       HttpInfoCode.EARLY_HINTS} |->
        CASE code = HttpInfoCode.CONTINUE ->
              [code |-> 100, description |-> "The initial part of a request has been received and has not yet been rejected by the server."]
          [] code = HttpInfoCode.SWITCHING_PROTOCOLS ->
              [code |-> 101, description |-> "The server is switching protocols as requested by the client."]
          [] code = HttpInfoCode.PROCESSING ->
              [code |-> 102, description |-> "The server has received and is processing the request, but no response is available yet."]
          [] code = HttpInfoCode.EARLY_HINTS ->
              [code |-> 103, description |-> "The server is sending some response headers before the final response."]]

\* a resolver that answers every code with the 500 entry
getErrorDefinition_internalOnly(code) == HttpErrorDefinitions[500]

\* getErrorDefinition(code): HttpErrorDefinitions[code] || HttpErrorDefinitions[500]
getErrorDefinition(code) ==
    IF code \in DOMAIN HttpErrorDefinitions
    THEN HttpErrorDefinitions[code]
    ELSE HttpErrorDefinitions[500]

\* a resolver that answers a code outside the tables with the 200 entry
getSuccessDefinition_okFallback(code) ==
    IF code \in DOMAIN HttpSuccessDefinitions THEN HttpSuccessDefinitions[code]
    ELSE IF code \in DOMAIN HttpRedirectDefinitions THEN HttpRedirectDefinitions[code]
    ELSE IF code \in DOMAIN HttpInfoDefinitions THEN HttpInfoDefinitions[code]
    ELSE HttpSuccessDefinitions[HttpSuccessCode.OK]

\* getSuccessDefinition(code): the 2xx, 3xx, then 1xx table, else a generic
\* definition that keeps the code
getSuccessDefinition(code) ==
    IF code \in DOMAIN HttpSuccessDefinitions THEN HttpSuccessDefinitions[code]
    ELSE IF code \in DOMAIN HttpRedirectDefinitions THEN HttpRedirectDefinitions[code]
    ELSE IF code \in DOMAIN HttpInfoDefinitions THEN HttpInfoDefinitions[code]
    ELSE [code |-> code,
          description |-> "The request was processed with a non-standard status code."]

(***************************************************************************)
(* config/index.ts                                                         *)
(***************************************************************************)
NodeEnvs == {"development", "production"}

\* defaultConfig, for the NODE_ENV found when the module is imported
DefaultConfigAt(env) ==
    [isDevelopment       |-> Some(env = "development"),
     includeTimestamp    |-> Some(TRUE),
     customMessages      |-> Some(EmptyObject),
     responseTransformer |-> None]

configureMerge_keepingCurrent(current, config) == Spread(config, current)

\* the value configure(config) assigns to currentConfig
configureMerge(current, config) == Spread(current, config)

isDevelopment(cfg) == Nullish(cfg.isDevelopment, Some(FALSE))[1]

\* the setting as it was when the module was imported
shouldIncludeTimestamp_atImport(cfg) ==
    Nullish(defaultConfig.includeTimestamp, Some(TRUE))[1]

shouldIncludeTimestamp(cfg) == Nullish(cfg.includeTimestamp, Some(TRUE))[1]

\* currentConfig.customMessages?.[code]
getCustomMessage(cfg, code) ==
    IF cfg.customMessages = None THEN None ELSE Prop(cfg.customMessages[1], code)

getResponseTransformer(cfg) == cfg.responseTransformer

(***************************************************************************)
(* errors/HttpError.ts                                                     *)
(***************************************************************************)
\* the trace captured when an error is constructed
StackTrace == "HttpError\n    at <anonymous>"

\* finalMessage with the configured message placed before options.message
finalMessage_customFirst(options, customMessage, errorInfo) ==
    Nullish(customMessage, Nullish(Opt(options, "message"), Some(errorInfo.details)))[1]

\* options.message ?? customMessage ?? errorInfo.details
finalMessage(options, customMessage, errorInfo) ==
    Nullish(Opt(options, "message"), Nullish(customMessage, Some(errorInfo.details)))[1]

\* options.retryAfter || errorInfo.retryAfter
retryAfterOf_truthy(options, errorInfo) ==
    IF Opt(options, "retryAfter") \notin {None, Some(0)}
    THEN Opt(options, "retryAfter")
    ELSE Prop(errorInfo, "retryAfter")

\* options.retryAfter ?? errorInfo.retryAfter
retryAfterOf(options, errorInfo) ==
    Nullish(Opt(options, "retryAfter"), Prop(errorInfo, "retryAfter"))

\* The outcome of new HttpError(code, options) under configuration cfg: what is
\* thrown, if anything, and the instance built.  The constructor has no throw
\* statement and none of the functions it calls has one.
HttpError(code, options, cfg) ==
    LET errorInfo == getErrorDefinition(code)
        customMessage == getCustomMessage(cfg, code)
    IN  [thrown |-> None,
         value  |-> Some(
            [name       |-> "HttpError",
             message    |-> finalMessage(options, customMessage, errorInfo),
             stack      |-> StackTrace,
             code       |-> errorInfo.code,
             type       |-> errorInfo.type,
             title      |-> errorInfo.title,
             metadata   |-> Opt(options, "metadata"),
             cause      |-> Opt(options, "cause"),
             retryAfter |-> retryAfterOf(options, errorInfo)])]

\* HttpError.notFound(message, metadata)
HttpError_notFound(message, metadata, cfg) ==
    HttpError(404, [message |-> message, metadata |-> metadata], cfg)

\* HttpError.tooManyRequests(message, retryAfter, metadata)
HttpError_tooManyRequests(message, retryAfter, metadata, cfg) ==
    HttpError(429, [message |-> message, metadata |-> metadata,
                    retryAfter |-> retryAfter], cfg)

\* HttpError.serviceUnavailable(message, retryAfter, metadata)
HttpError_serviceUnavailable(message, retryAfter, metadata, cfg) ==
    HttpError(503, [message |-> message, metadata |-> metadata,
                    retryAfter |-> retryAfter], cfg)

\* String(value) for the values the model passes around
DecimalDigits == <<"0", "1", "2", "3", "4", "5", "6", "7", "8", "9">>

RECURSIVE NatToString(_)
NatToString(n) ==
    IF n < 10 THEN DecimalDigits[n + 1]
    ELSE NatToString(n \div 10) \o DecimalDigits[(n % 10) + 1]

String(value) ==
    CASE value.kind = "number"    -> IF value.num < 0
                                     THEN "-" \o NatToString(-value.num)
                                     ELSE NatToString(value.num)
      [] value.kind = "string"    -> value.str
      [] value.kind = "null"      -> "null"
      [] value.kind = "undefined" -> "undefined"
      [] value.kind = "object"    -> "[object Object]"

\* fromError without its instanceof HttpError test: an HttpError is an Error,
\* so it is wrapped like one
HttpError_fromError_rewrap(error, fallbackArg, cfg) ==
    LET fallbackCode == Nullish(fallbackArg, Some(500))[1]
    IN  IF error.kind \in {"HttpError", "Error"}
        THEN Spread([same |-> None],
                    HttpError(fallbackCode,
                              [message |-> Some(IF error.kind = "HttpError"
                                                THEN heap[error.ref].message
                                                ELSE error.message),
                               cause |-> Some(error)], cfg))
        ELSE Spread([same |-> None],
                    HttpError(fallbackCode, [message |-> Some(String(error))], cfg))

\* HttpError.fromError(error, fallbackCode = 500).  error is a tagged value;
\* an HttpError is given by reference.  The result is either the reference
\* passed in (nothing is built) or the outcome of a constructor call.
HttpError_fromError(error, fallbackArg, cfg) ==
    LET fallbackCode == Nullish(fallbackArg, Some(500))[1]
    IN  IF error.kind = "HttpError"
        THEN [thrown |-> None, same |-> Some(error.ref), value |-> None]
        ELSE IF error.kind = "Error"
        THEN Spread([same |-> None],
                    HttpError(fallbackCode,
                              [message |-> Some(error.message), cause |-> Some(error)],
                              cfg))
        ELSE Spread([same |-> None],
                    HttpError(fallbackCode, [message |-> Some(String(error))], cfg))

\* toJSON(): the keys the object literal lists; metadata and retryAfter are
\* own keys even when their value is undefined
HttpError_toJSON(this) ==
    [name |-> this.name, code |-> this.code, type |-> this.type,
     title |-> this.title, message |-> this.message,
     metadata |-> this.metadata, retryAfter |-> this.retryAfter]

HttpError_isClientError_inclusive(this) == this.code >= 400 /\ this.code <= 500

\* isClientError()
HttpError_isClientError(this) == this.code >= 400 /\ this.code < 500

\* isServerError()
HttpError_isServerError(this) == this.code >= 500 /\ this.code < 600

(***************************************************************************)
(* responses/HttpResponse.ts                                               *)
(***************************************************************************)
\* constants/status-codes.ts, the members HttpResponse uses
HttpSuccessCode_OK == 200
HttpSuccessCode_CREATED == 201
HttpSuccessCode_ACCEPTED == 202
HttpSuccessCode_NO_CONTENT == 204
HttpSuccessCode_RESET_CONTENT == 205
HttpSuccessCode_PARTIAL_CONTENT == 206
HttpRedirectCode_NOT_MODIFIED == 304

\* new Date().toISOString()
Now == "2026-02-28T12:00:00.000Z"

\* the object { key: value } when cond holds, {} otherwise
Field(cond, key, value) == [k \in (IF cond THEN {key} ELSE {}) |-> value]

\* the response transformers an application installs with configure()
applyTransformer(transformer, response) ==
    CASE transformer = "addCustomHeader" ->
            Spread(response, [custom_header |-> "transformed"])
      [] transformer = "wrapPayload" ->
            [payload |-> response]

\* a last step that runs the transformer on its own result again
transformed_twice(response, cfg) ==
    LET transformer == getResponseTransformer(cfg)
    IN  IF transformer # None
        THEN applyTransformer(transformer[1], applyTransformer(transformer[1], response))
        ELSE response

\* the last step of success() and error()
transformed(response, cfg) ==
    LET transformer == getResponseTransformer(cfg)
    IN  IF transformer # None THEN applyTransformer(transformer[1], response)
        ELSE response

\* data !== null && data !== undefined
isPresent(data) == data # None /\ data[1].kind \notin {"null", "undefined"}

\* the status codes success() builds no data field for, without 304
isNoBodyStatus_without304(statusCode) ==
    statusCode \in {HttpSuccessCode_NO_CONTENT, HttpSuccessCode_RESET_CONTENT}

\* the status codes success() builds no data field for
isNoBodyStatus(statusCode) ==
    \/ statusCode = HttpSuccessCode_NO_CONTENT
    \/ statusCode = HttpSuccessCode_RESET_CONTENT
    \/ statusCode = HttpRedirectCode_NOT_MODIFIED

\* HttpResponse.success(config)
HttpResponse_success(config, cfg) ==
    LET data == Opt(config, "data")
        message == Opt(config, "message")
        statusCode == Nullish(Opt(config, "statusCode"), Some(HttpSuccessCode_OK))[1]
        metadata == Nullish(Opt(config, "metadata"), Some(EmptyObject))[1]
        successInfo == getSuccessDefinition(statusCode)
        r0 == [success |-> TRUE, status_code |-> successInfo.code]
        r1 == Spread(r0, Field(shouldIncludeTimestamp(cfg), "timestamp", Now))
        r2 == IF ~isNoBodyStatus(statusCode) /\ isPresent(data)
              THEN Spread(r1, [data |-> data[1]]) ELSE r1
        r3 == IF message # None /\ message[1] # ""
              THEN Spread(r2, [message |-> message[1]]) ELSE r2
        r4 == IF DOMAIN metadata # {}
              THEN Spread(r3, [metadata |-> metadata]) ELSE r3
    IN  [thrown |-> None, value |-> Some(transformed(r4, cfg))]

\* the keys of additionalFields that error() leaves out
ProtectedKeys == {"success", "status_code", "error", "timestamp", "metadata", "retry_after"}

\* a filter that protects the three keys every envelope has
safeFields_coreOnly(additionalFields) ==
    Without(additionalFields, {"success", "status_code", "error"})

\* an error() that copies additionalFields as they are
safeFields_unfiltered(additionalFields) == additionalFields

\* const { success, status_code, error, timestamp, metadata, retry_after,
\*         ...safeFields } = additionalFields
safeFields(additionalFields) == Without(additionalFields, ProtectedKeys)

\* the stack decision taken as includeStack || isDevelopment()
shouldIncludeStack_ambientFirst(includeStack, cfg) ==
    isDevelopment(cfg) \/ Nullish(includeStack, Some(FALSE))[1]

\* includeStack ?? isDevelopment()
shouldIncludeStack(includeStack, cfg) ==
    Nullish(includeStack, Some(isDevelopment(cfg)))[1]

\* the trace written to error.details, as the earlier error() did
withStack_asDetails(errorBody, stack) == Spread(errorBody, [details |-> stack])

\* response.error.stack = error.stack
withStack(errorBody, stack) == Spread(errorBody, [stack |-> stack])

\* a message looked up in the store when the envelope is built
errorMessage_resolvedAtBuild(error, cfg) ==
    Nullish(getCustomMessage(cfg, error.code), Some(error.message))[1]

\* message: error.message
errorMessage(error, cfg) == error.message

\* HttpResponse.error(error, config), error being the instance itself
HttpResponse_error(error, config, cfg) ==
    LET includeStack == Opt(config, "includeStack")
        additionalFields == Opt(config, "additionalFields")
        details == Prop(error, "details")
        e0 == [type |-> error.type, title |-> error.title,
               message |-> errorMessage(error, cfg)]
        e1 == IF details # None /\ details[1] # ""
              THEN Spread(e0, [details |-> details[1]]) ELSE e0
        e2 == IF shouldIncludeStack(includeStack, cfg)
              THEN withStack(e1, error.stack) ELSE e1
        r0 == [success |-> FALSE, status_code |-> error.code, error |-> e2]
        r1 == Spread(r0, Field(shouldIncludeTimestamp(cfg), "timestamp", Now))
        r2 == IF error.retryAfter # None /\ error.retryAfter[1] # 0
              THEN Spread(r1, [retry_after |-> error.retryAfter[1]]) ELSE r1
        r3 == IF error.metadata # None
              THEN Spread(r2, [metadata |-> error.metadata[1]]) ELSE r2
        r4 == IF additionalFields # None
              THEN Spread(r3, safeFields(additionalFields[1])) ELSE r3
    IN  [thrown |-> None, value |-> Some(transformed(r4, cfg))]

\* HttpResponse.fromError(error, config): error is a tagged value, an
\* HttpError being given by reference
HttpResponse_fromError(error, config, cfg) ==
    LET converted == HttpError_fromError(error, Opt(config, "fallbackCode"), cfg)
        httpError == IF converted.same # None THEN heap[converted.same[1]]
                     ELSE converted.value[1]
    IN  HttpResponse_error(httpError, config, cfg)

\* A JavaScript number that a division produced: finite, or one of the
\* values a zero divisor gives.
Finite(n) == [kind |-> "finite", n |-> n]
Infinity == [kind |-> "Infinity"]
NegInfinity == [kind |-> "-Infinity"]
NaN == [kind |-> "NaN"]

\* Math.ceil(a / b) on integers
ceilDiv(a, b) ==
    IF b = 0 THEN (IF a > 0 THEN Infinity ELSE IF a < 0 THEN NegInfinity ELSE NaN)
    ELSE IF b > 0 THEN Finite(-((-a) \div b))
    ELSE Finite(-(a \div (-b)))

lessThan_inclusive(page, pages) ==
    CASE pages.kind = "finite"    -> page <= pages.n
      [] pages.kind = "Infinity"  -> TRUE
      [] pages.kind = "-Infinity" -> FALSE
      [] pages.kind = "NaN"       -> FALSE

\* page < pages, pages a number as above
lessThan(page, pages) ==
    CASE pages.kind = "finite"    -> page < pages.n
      [] pages.kind = "Infinity"  -> TRUE
      [] pages.kind = "-Infinity" -> FALSE
      [] pages.kind = "NaN"       -> FALSE

\* paginated() using pagination.limit as it is
effectiveLimit_unguarded(limit) == limit

\* pagination.limit > 0 ? pagination.limit : 1
effectiveLimit(limit) == IF limit > 0 THEN limit ELSE 1

\* HttpResponse.paginated(data, pagination, message)
HttpResponse_paginated(data, pagination, message, cfg) ==
    LET limit == effectiveLimit(pagination.limit)
        totalPages == Opt(pagination, "totalPages")
        pages == IF totalPages # None THEN Finite(totalPages[1])
                 ELSE ceilDiv(pagination.total, limit)
    IN  HttpResponse_success(
            [data |-> Some(data), message |-> message,
             metadata |-> Some([pagination |->
                [page        |-> pagination.page,
                 limit       |-> limit,
                 total       |-> pagination.total,
                 total_pages |-> pages,
                 has_next    |-> lessThan(pagination.page, pages),
                 has_prev    |-> pagination.page > 1]])],
            cfg)

(***************************************************************************)
(* The inputs the operations are called with.                              *)
(***************************************************************************)
SampleMetadata == [field |-> "email"]

\* status codes handed to the constructor: below, inside and above 400..599,
\* some with a table entry and some without
CtorCodes == {-1, 200, 404, 429, 499, 500, 599, 600}

CtorOptions ==
    { EmptyObject,
      [message |-> Some("Custom")],
      [message |-> Some("Custom"), metadata |-> Some(SampleMetadata),
       retryAfter |-> Some(120)] }

\* the partial configurations handed to configure() around error construction
MessagePartials ==
    { [customMessages |-> Some([code \in {404} |-> "A"])],
      [customMessages |-> Some([code \in {500} |-> "B"])],
      [customMessages |-> Some([code \in {404} |-> "B"])] }

\* values that are not HttpError instances
ForeignValues ==
    { [kind |-> "Error", message |-> "Standard failure"],
      [kind |-> "number", num |-> 42],
      [kind |-> "null"] }

\* fallbackCode omitted, mapped, in range without a table entry, out of range
FallbackArgs == {None, Some(400), Some(499), Some(200)}

\* the partial configurations success() depends on
SuccessPartials ==
    { [includeTimestamp |-> Some(FALSE)],
      [includeTimestamp |-> Some(TRUE)],
      [responseTransformer |-> Some("addCustomHeader")] }

\* the partial configurations error() depends on
ShapingPartials ==
    { [includeTimestamp |-> Some(FALSE)],
      [includeTimestamp |-> Some(TRUE)],
      [isDevelopment |-> Some(TRUE)],
      [isDevelopment |-> Some(FALSE)],
      [responseTransformer |-> Some("addCustomHeader")] }

\* success(): data, message, statusCode, metadata
SampleItems == [kind |-> "array", items |-> <<1, 2, 3>>]

SuccessData ==
    { None,
      Some([kind |-> "null"]),
      Some([kind |-> "string", str |-> "should be excluded"]),
      Some(SampleItems) }

SuccessMessages == {None, Some(""), Some("Test success")}

SuccessStatusCodes == {None, Some(204), Some(205), Some(299), Some(304)}

SuccessMetadata == {None, Some(EmptyObject), Some(SampleMetadata)}

\* the config object with the fields that are given
SuccessConfig(data, message, statusCode, metadata) ==
    Spread(Spread(Field(data # None, "data", data),
                  Field(message # None, "message", message)),
           Spread(Field(statusCode # None, "statusCode", statusCode),
                  Field(metadata # None, "metadata", metadata)))

DataWrappers ==
    { [name |-> "HttpResponse.ok", statusCode |-> HttpSuccessCode_OK],
      [name |-> "HttpResponse.created", statusCode |-> HttpSuccessCode_CREATED],
      [name |-> "HttpResponse.accepted", statusCode |-> HttpSuccessCode_ACCEPTED],
      [name |-> "HttpResponse.partialContent", statusCode |-> HttpSuccessCode_PARTIAL_CONTENT] }

EmptyWrappers ==
    { [name |-> "HttpResponse.noContent", statusCode |-> HttpSuccessCode_NO_CONTENT],
      [name |-> "HttpResponse.notModified", statusCode |-> HttpRedirectCode_NOT_MODIFIED] }

\* paginated(): page, limit, total and an optional totalPages
MaxPage == 2
MaxLimit == 3
MaxTotal == 10
MaxTotalPages == 2

Paginations ==
    { [page |-> p, limit |-> l, total |-> t] :
        p \in 0..MaxPage, l \in -1..MaxLimit, t \in 0..MaxTotal }
    \cup
    { [page |-> p, limit |-> l, total |-> t, totalPages |-> Some(tp)] :
        p \in 0..MaxPage, l \in -1..MaxLimit, t \in {0, MaxTotal}, tp \in 0..MaxTotalPages }

\* error(): the instances built beforehand and the config passed
EnvelopeCodes == {400, 429}

EnvelopeOptions ==
    { EmptyObject,
      [message |-> Some("Custom"), metadata |-> Some(SampleMetadata),
       retryAfter |-> Some(120)],
      [retryAfter |-> Some(0)] }

AdditionalFieldSets ==
    { EmptyObject,
      [success |-> TRUE, status_code |-> 999, tag |-> "ok"],
      [retry_after |-> 999, custom_field |-> "safe"],
      [success |-> TRUE, status_code |-> 200,
       error |-> [type |-> "spoofed", title |-> "Spoofed", message |-> "spoofed"],
       timestamp |-> "1970-01-01T00:00:00.000Z",
       metadata |-> [injected |-> TRUE],
       retry_after |-> 1,
       custom_field |-> "safe"] }

ErrorConfigs ==
    { EmptyObject, [includeStack |-> Some(TRUE)], [includeStack |-> Some(FALSE)] }
    \cup { [additionalFields |-> Some(af)] : af \in AdditionalFieldSets }

(***************************************************************************)
(* The state machine.                                                      *)
(***************************************************************************)
\* aliases once holder got a customMessages object of its own
Unaliased(holder) == {pair \in aliases : holder \notin pair}

\* aliases once holder got the customMessages object that source holds
AliasedTo(holder, source) ==
    Unaliased(holder) \cup {{holder, source}}
        \cup {{holder, other} : other \in
                {o \in {"defaultConfig", "currentConfig", "snapshot"} \ {holder, source} :
                    {source, o} \in aliases}}

Init ==
    /\ nodeEnv \in NodeEnvs
    /\ defaultConfig = DefaultConfigAt(nodeEnv)
    /\ currentConfig = defaultConfig          \* { ...defaultConfig }
    /\ heap = <<>>
    /\ devConfigured = None
    /\ last = [op |-> "import"]
    /\ snapshot = None
    /\ aliases = {{"defaultConfig", "currentConfig"}}

\* configure(config)
configure(config) ==
    /\ currentConfig' = configureMerge(currentConfig, config)
    /\ devConfigured' = Nullish(Opt(config, "isDevelopment"), devConfigured)
    /\ aliases' = IF Opt(config, "customMessages") # None
                  THEN Unaliased("currentConfig") ELSE aliases
    /\ last' = [op |-> "configure", config |-> config]
    /\ UNCHANGED <<nodeEnv, defaultConfig, heap, snapshot>>

\* resetConfig()
resetConfig ==
    /\ currentConfig' = defaultConfig
    /\ devConfigured' = None
    /\ aliases' = AliasedTo("currentConfig", "defaultConfig")
    /\ last' = [op |-> "resetConfig"]
    /\ UNCHANGED <<nodeEnv, defaultConfig, heap, snapshot>>

\* The effect of a call that returns an HttpError: a new instance goes to
\* the heap, an instance passed through stays where it is.
Returned(outcome) ==
    IF outcome.value # None THEN Some(Len(heap) + 1)
    ELSE IF "same" \in DOMAIN outcome THEN outcome.same
    ELSE None

Allocate(outcome) ==
    /\ outcome.value # None => Len(heap) < MaxErrors
    /\ heap' = IF outcome.value # None THEN Append(heap, outcome.value[1]) ELSE heap

\* new HttpError(code, options)
NewHttpError(code, options) ==
    LET outcome == HttpError(code, options, currentConfig) IN
    /\ Allocate(outcome)
    /\ last' = [op |-> "new HttpError", code |-> code, options |-> options,
                thrown |-> outcome.thrown, result |-> Returned(outcome)]
    /\ UNCHANGED <<nodeEnv, defaultConfig, currentConfig, devConfigured, snapshot, aliases>>

\* HttpError.fromError(error, fallbackCode)
FromError(error, fallbackArg) ==
    LET outcome == HttpError_fromError(error, fallbackArg, currentConfig) IN
    /\ Allocate(outcome)
    /\ last' = [op |-> "HttpError.fromError", error |-> error,
                fallbackArg |-> fallbackArg,
                thrown |-> outcome.thrown, result |-> Returned(outcome)]
    /\ UNCHANGED <<nodeEnv, defaultConfig, currentConfig, devConfigured, snapshot, aliases>>

\* the HttpError instances a caller can pass, by reference
HeapRefs == {[kind |-> "HttpError", ref |-> i] : i \in DOMAIN heap}

\* HttpResponse.success(config)
Success(config) ==
    LET outcome == HttpResponse_success(config, currentConfig) IN
    /\ last' = [op |-> "HttpResponse.success", config |-> config,
                thrown |-> outcome.thrown, result |-> outcome.value]
    /\ UNCHANGED <<nodeEnv, defaultConfig, currentConfig, heap, devConfigured, snapshot, aliases>>

\* HttpResponse.ok / created / accepted / partialContent (data, message)
SuccessWrapper(name, statusCode, data, message) ==
    LET config == [data |-> data, message |-> message, statusCode |-> Some(statusCode)]
        outcome == HttpResponse_success(config, currentConfig) IN
    /\ last' = [op |-> name, config |-> config,
                thrown |-> outcome.thrown, result |-> outcome.value]
    /\ UNCHANGED <<nodeEnv, defaultConfig, currentConfig, heap, devConfigured, snapshot, aliases>>

\* HttpResponse.noContent() / notModified()
EmptyWrapper(name, statusCode) ==
    LET config == [statusCode |-> Some(statusCode)]
        outcome == HttpResponse_success(config, currentConfig) IN
    /\ last' = [op |-> name, config |-> config,
                thrown |-> outcome.thrown, result |-> outcome.value]
    /\ UNCHANGED <<nodeEnv, defaultConfig, currentConfig, heap, devConfigured, snapshot, aliases>>

\* HttpResponse.paginated(data, pagination, message)
Paginated(data, pagination, message) ==
    LET outcome == HttpResponse_paginated(data, pagination, message, currentConfig) IN
    /\ last' = [op |-> "HttpResponse.paginated", pagination |-> pagination,
                data |-> data, message |-> message,
                thrown |-> outcome.thrown, result |-> outcome.value]
    /\ UNCHANGED <<nodeEnv, defaultConfig, currentConfig, heap, devConfigured, snapshot, aliases>>

\* HttpResponse.error(error, config)
ErrorResponse(ref, config) ==
    LET outcome == HttpResponse_error(heap[ref], config, currentConfig) IN
    /\ last' = [op |-> "HttpResponse.error", error |-> ref, config |-> config,
                thrown |-> outcome.thrown, result |-> outcome.value]
    /\ UNCHANGED <<nodeEnv, defaultConfig, currentConfig, heap, devConfigured, snapshot, aliases>>

\* HttpError.notFound(message)
NotFound(message) ==
    LET outcome == HttpError_notFound(message, None, currentConfig) IN
    /\ Allocate(outcome)
    /\ last' = [op |-> "HttpError.notFound", code |-> 404, message |-> message,
                retryAfter |-> None,
                thrown |-> outcome.thrown, result |-> Returned(outcome)]
    /\ UNCHANGED <<nodeEnv, defaultConfig, currentConfig, devConfigured, snapshot, aliases>>

\* HttpError.tooManyRequests(message, retryAfter)
TooManyRequests(message, retryAfter) ==
    LET outcome == HttpError_tooManyRequests(message, retryAfter, None, currentConfig) IN
    /\ Allocate(outcome)
    /\ last' = [op |-> "HttpError.tooManyRequests", code |-> 429, message |-> message,
                retryAfter |-> retryAfter,
                thrown |-> outcome.thrown, result |-> Returned(outcome)]
    /\ UNCHANGED <<nodeEnv, defaultConfig, currentConfig, devConfigured, snapshot, aliases>>

\* HttpError.serviceUnavailable(message, retryAfter)
ServiceUnavailable(message, retryAfter) ==
    LET outcome == HttpError_serviceUnavailable(message, retryAfter, None, currentConfig) IN
    /\ Allocate(outcome)
    /\ last' = [op |-> "HttpError.serviceUnavailable", code |-> 503, message |-> message,
                retryAfter |-> retryAfter,
                thrown |-> outcome.thrown, result |-> Returned(outcome)]
    /\ UNCHANGED <<nodeEnv, defaultConfig, currentConfig, devConfigured, snapshot, aliases>>

\* HttpResponse.fromError(error, config)
ResponseFromError(error, config) ==
    LET outcome == HttpResponse_fromError(error, config, currentConfig) IN
    /\ last' = [op |-> "HttpResponse.fromError", error |-> error, config |-> config,
                thrown |-> outcome.thrown, result |-> outcome.value]
    /\ UNCHANGED <<nodeEnv, defaultConfig, currentConfig, heap, devConfigured, snapshot, aliases>>

\* error.toJSON()
ToJSON(ref) ==
    /\ last' = [op |-> "toJSON", error |-> ref,
                thrown |-> None, result |-> Some(HttpError_toJSON(heap[ref]))]
    /\ UNCHANGED <<nodeEnv, defaultConfig, currentConfig, heap, devConfigured, snapshot, aliases>>

\* error.isClientError()
IsClientError(ref) ==
    /\ last' = [op |-> "isClientError", error |-> ref,
                answer |-> HttpError_isClientError(heap[ref])]
    /\ UNCHANGED <<nodeEnv, defaultConfig, currentConfig, heap, devConfigured, snapshot, aliases>>

\* error.isServerError()
IsServerError(ref) ==
    /\ last' = [op |-> "isServerError", error |-> ref,
                answer |-> HttpError_isServerError(heap[ref])]
    /\ UNCHANGED <<nodeEnv, defaultConfig, currentConfig, heap, devConfigured, snapshot, aliases>>

\* getConfig(): { ...currentConfig }, a new object with the store's values,
\* the customMessages object among them
GetConfig ==
    /\ snapshot' = Some(currentConfig)
    /\ aliases' = AliasedTo("snapshot", "currentConfig")
    /\ last' = [op |-> "getConfig"]
    /\ UNCHANGED <<nodeEnv, defaultConfig, currentConfig, heap, devConfigured>>

\* the caller assigns fields of the object getConfig() returned
SetSnapshotFields(fields) ==
    /\ snapshot # None
    /\ snapshot' = Some(Spread(snapshot[1], fields))
    /\ aliases' = IF "customMessages" \in DOMAIN fields
                  THEN Unaliased("snapshot") ELSE aliases
    /\ last' = [op |-> "snapshot[field] = value", fields |-> fields]
    /\ UNCHANGED <<nodeEnv, defaultConfig, currentConfig, heap, devConfigured>>

\* config with customMessages[code] = message written into its map
withMessage(config, code, message) ==
    [config EXCEPT !.customMessages =
        Some([c \in DOMAIN config.customMessages[1] \cup {code} |->
                IF c = code THEN message ELSE config.customMessages[1][c]])]

\* the caller assigns an entry of the customMessages object of the object
\* getConfig() returned: every holder of that object sees the entry
SetSnapshotMessage(code, message) ==
    /\ snapshot # None
    /\ snapshot[1].customMessages # None
    /\ snapshot' = Some(withMessage(snapshot[1], code, message))
    /\ currentConfig' = IF {"currentConfig", "snapshot"} \in aliases
                        THEN withMessage(currentConfig, code, message)
                        ELSE currentConfig
    /\ defaultConfig' = IF {"defaultConfig", "snapshot"} \in aliases
                        THEN withMessage(defaultConfig, code, message)
                        ELSE defaultConfig
    /\ last' = [op |-> "snapshot.customMessages[code] = message",
                code |-> code, message |-> message]
    /\ UNCHANGED <<nodeEnv, heap, devConfigured, aliases>>

\* process.env.NODE_ENV = env, in the running process
SetEnv(env) ==
    /\ nodeEnv' = env
    /\ last' = [op |-> "process.env.NODE_ENV", env |-> env]
    /\ UNCHANGED <<defaultConfig, currentConfig, heap, devConfigured, snapshot, aliases>>

\* isDevelopment()
IsDevelopment ==
    /\ last' = [op |-> "isDevelopment", result |-> isDevelopment(currentConfig)]
    /\ UNCHANGED <<nodeEnv, defaultConfig, currentConfig, heap, devConfigured, snapshot, aliases>>

(***************************************************************************)
(* Spec: the error value and the custom messages of the store.             *)
(***************************************************************************)
Next ==
    \/ \E config \in MessagePartials : configure(config)
    \/ resetConfig
    \/ \E code \in CtorCodes, options \in CtorOptions : NewHttpError(code, options)
    \/ \E error \in ForeignValues \cup HeapRefs, fallbackArg \in FallbackArgs :
            FromError(error, fallbackArg)

Spec == Init /\ [][Next]_vars

(***************************************************************************)
(* SpecSuccess: the success envelopes under every setting of the store.    *)
(***************************************************************************)
NextSuccess ==
    \/ \E config \in SuccessPartials : configure(config)
    \/ resetConfig
    \/ \E data \in SuccessData, message \in SuccessMessages,
          statusCode \in SuccessStatusCodes, metadata \in SuccessMetadata :
            Success(SuccessConfig(data, message, statusCode, metadata))
    \/ \E w \in DataWrappers, data \in SuccessData, message \in {None, Some("Partial")} :
            SuccessWrapper(w.name, w.statusCode, data, message)
    \/ \E w \in EmptyWrappers : EmptyWrapper(w.name, w.statusCode)
    \/ \E pagination \in Paginations : Paginated(SampleItems, pagination, None)

SpecSuccess == Init /\ [][NextSuccess]_vars

(***************************************************************************)
(* SpecEnvelope: error envelopes built from the instances on the heap.     *)
(***************************************************************************)
NextEnvelope ==
    \/ \E config \in ShapingPartials : configure(config)
    \/ resetConfig
    \/ \E code \in EnvelopeCodes, options \in EnvelopeOptions : NewHttpError(code, options)
    \/ \E ref \in DOMAIN heap, config \in ErrorConfigs : ErrorResponse(ref, config)

SpecEnvelope == Init /\ [][NextEnvelope]_vars

(***************************************************************************)
(* SpecConfig: the store under configure(), resetConfig() and a changing   *)
(* environment.                                                            *)
(***************************************************************************)
\* the partial configurations of every field of the store
StorePartials ==
    { [isDevelopment |-> Some(TRUE)],
      [isDevelopment |-> Some(FALSE)],
      [includeTimestamp |-> Some(FALSE)],
      [customMessages |-> Some([code \in {404} |-> "A"])],
      [responseTransformer |-> Some("addCustomHeader")],
      [includeTimestamp |-> Some(FALSE),
       customMessages |-> Some([code \in {500} |-> "B"])] }

StoreCodes == {404, 500}

NextConfig ==
    \/ \E config \in StorePartials : configure(config)
    \/ resetConfig
    \/ \E env \in NodeEnvs : SetEnv(env)
    \/ IsDevelopment
    \/ \E code \in StoreCodes : NewHttpError(code, EmptyObject)
    \/ \E ref \in DOMAIN heap : ErrorResponse(ref, EmptyObject)

SpecConfig == Init /\ [][NextConfig]_vars

(***************************************************************************)
(* SpecTransform: every envelope builder with and without a transformer.   *)
(***************************************************************************)
TransformPartials ==
    { [responseTransformer |-> Some("addCustomHeader")],
      [responseTransformer |-> Some("wrapPayload")],
      [includeTimestamp |-> Some(FALSE)] }

TransformOptions ==
    { EmptyObject, [metadata |-> Some(SampleMetadata), retryAfter |-> Some(120)] }

TransformErrorConfigs ==
    { EmptyObject,
      [includeStack |-> Some(TRUE),
       additionalFields |-> Some([status_code |-> 999, retry_after |-> 1,
                                  custom_field |-> "safe"])] }

NextTransform ==
    \/ \E config \in TransformPartials : configure(config)
    \/ resetConfig
    \/ \E data \in {None, Some(SampleItems)}, message \in {None, Some("Test success")},
          statusCode \in {None, Some(204)}, metadata \in {None, Some(SampleMetadata)} :
            Success(SuccessConfig(data, message, statusCode, metadata))
    \/ \E w \in DataWrappers : SuccessWrapper(w.name, w.statusCode, Some(SampleItems), None)
    \/ \E w \in EmptyWrappers : EmptyWrapper(w.name, w.statusCode)
    \/ \E limit \in {0, 3} :
            Paginated(SampleItems, [page |-> 1, limit |-> limit, total |-> 10], None)
    \/ \E code \in EnvelopeCodes, options \in TransformOptions : NewHttpError(code, options)
    \/ \E ref \in DOMAIN heap, config \in TransformErrorConfigs : ErrorResponse(ref, config)
    \/ \E error \in ForeignValues \cup HeapRefs, config \in TransformErrorConfigs :
            ResponseFromError(error, config)

SpecTransform == Init /\ [][NextTransform]_vars

(***************************************************************************)
(* SpecRetry: the retry hint of errors built by the constructor and by     *)
(* the factories.                                                          *)
(***************************************************************************)
\* codes with a default hint (429), without one (404) and without a table
\* entry (499)
RetryCodes == {404, 429, 499}

RetryOptions == {EmptyObject, [retryAfter |-> Some(120)], [retryAfter |-> Some(0)]}

RetryArgs == {None, Some(120), Some(0)}

NextRetry ==
    \/ \E code \in RetryCodes, options \in RetryOptions : NewHttpError(code, options)
    \/ NotFound(Some("Down"))
    \/ \E retryAfter \in RetryArgs : TooManyRequests(Some("Down"), retryAfter)
    \/ \E retryAfter \in RetryArgs : ServiceUnavailable(Some("Down"), retryAfter)

SpecRetry == Init /\ [][NextRetry]_vars

(***************************************************************************)
(* SpecSnapshot: the store, the objects getConfig() returns and what a     *)
(* caller writes into them.                                                *)
(***************************************************************************)
SnapshotPartials ==
    { [includeTimestamp |-> Some(FALSE)],
      [customMessages |-> Some([code \in {404} |-> "A"])],
      [customMessages |-> Some([code \in {500} |-> "B"])] }

SnapshotWrites ==
    { [includeTimestamp |-> Some(FALSE)],
      [isDevelopment |-> Some(TRUE)],
      [customMessages |-> Some([code \in {404} |-> "Y"])] }

NextSnapshot ==
    \/ \E config \in SnapshotPartials : configure(config)
    \/ resetConfig
    \/ GetConfig
    \/ \E fields \in SnapshotWrites : SetSnapshotFields(fields)
    \/ \E code \in StoreCodes : SetSnapshotMessage(code, "X")

SpecSnapshot == Init /\ [][NextSnapshot]_vars

(***************************************************************************)
(* SpecInstance: every way to an HttpError, the methods of an instance and *)
(* the envelope of a converted value.                                      *)
(***************************************************************************)
\* codes below the range, with a table entry, in range without one, above
InstanceCodes == {200, 404, 499, 503, 600}

InstanceOptions == {EmptyObject, [message |-> Some("Custom msg")]}

InstanceValues ==
    { [kind |-> "Error", message |-> "Crash"], [kind |-> "null"] }

InstanceFallbacks == {None, Some(503), Some(200)}

\* fallbackCode omitted, mapped, in range without a table entry, out of range
InstanceConfigs ==
    { EmptyObject, [fallbackCode |-> Some(503)],
      [fallbackCode |-> Some(499)], [fallbackCode |-> Some(200)] }

NextInstance ==
    \/ \E code \in InstanceCodes, options \in InstanceOptions : NewHttpError(code, options)
    \/ NotFound(None)
    \/ \E error \in InstanceValues \cup HeapRefs, fallbackArg \in InstanceFallbacks :
            FromError(error, fallbackArg)
    \/ \E error \in InstanceValues \cup HeapRefs, config \in InstanceConfigs :
            ResponseFromError(error, config)
    \/ \E ref \in DOMAIN heap : ErrorResponse(ref, EmptyObject)
    \/ \E ref \in DOMAIN heap : ToJSON(ref)
    \/ \E ref \in DOMAIN heap : IsClientError(ref)
    \/ \E ref \in DOMAIN heap : IsServerError(ref)

SpecInstance == Init /\ [][NextInstance]_vars

(***************************************************************************)
(* Properties of the error value and of the configuration store, checked   *)
(* under Spec.                                                             *)
(***************************************************************************)
ErrorRange == 400..599

\* the instance a call returned
LastError == heap[last.result[1]]

\* C1: new HttpError(code) succeeds when 400 <= code <= 599 and throws a
\* RangeError, producing no HttpError, when code is outside that range.
C1_ConstructorRangeChecked ==
    last.op = "new HttpError" =>
        IF last.code \in ErrorRange
        THEN last.thrown = None /\ last.result # None
        ELSE last.thrown = Some("RangeError") /\ last.result = None

\* C2: for a code in 400..599 without a table entry, getErrorDefinition and the
\* constructor keep the code as given and classify it by range:
\* unknown_client_error below 500, unknown_server_error from 500 on.
UnknownType(code) == IF code < 500 THEN "unknown_client_error" ELSE "unknown_server_error"
UnknownTitle(code) == IF code < 500 THEN "Unknown Client Error" ELSE "Unknown Server Error"

C2_UnmappedCodePreserved ==
    (/\ last.op = "new HttpError"
     /\ last.code \in ErrorRange \ DOMAIN HttpErrorDefinitions
     /\ last.result # None)
    => /\ getErrorDefinition(last.code).code = last.code
       /\ LastError.code = last.code
       /\ LastError.type = UnknownType(last.code)
       /\ LastError.title = UnknownTitle(last.code)

\* C4: a configure() call that supplies customMessages sets the message of
\* every code it names and leaves the message of every other code as it was,
\* so the messages of successive calls accumulate.
C4_CustomMessagesAccumulate ==
    [][(/\ last'.op = "configure"
        /\ Opt(last'.config, "customMessages") # None)
       => \A code \in CtorCodes :
            getCustomMessage(currentConfig', code) =
                IF code \in DOMAIN last'.config.customMessages[1]
                THEN Some(last'.config.customMessages[1][code])
                ELSE getCustomMessage(currentConfig, code)]_vars

\* C5: the message of a constructed HttpError is options.message when given,
\* else the custom message configured for the code when there is one, else
\* the details of the definition resolved for the code.
C5_MessagePrecedence ==
    (last.op = "new HttpError" /\ last.result # None) =>
        LastError.message =
            IF "message" \in DOMAIN last.options /\ last.options.message # None
            THEN last.options.message[1]
            ELSE IF /\ currentConfig.customMessages # None
                    /\ last.code \in DOMAIN currentConfig.customMessages[1]
            THEN currentConfig.customMessages[1][last.code]
            ELSE getErrorDefinition(last.code).details

\* a constructor call for which a custom message is configured and no
\* options.message is given, and one where both are present
C5_Witness ==
    /\ last.op = "new HttpError"
    /\ last.code = 404
    /\ last.options = EmptyObject
    /\ getCustomMessage(currentConfig, 404) = Some("A")
    /\ LastError.message = "A"

\* C6: every HttpError carries details, equal to the details of the definition
\* resolved for its code, whatever message is in effect.
C6_DetailsFromDefinition ==
    (last.op \in {"new HttpError", "HttpError.fromError"} /\ last.result # None) =>
        Prop(LastError, "details") = Some(getErrorDefinition(LastError.code).details)

\* C9: fromError on a value that is not an HttpError, with a fallbackCode
\* outside 400..599, throws a RangeError and returns nothing.
C9_FallbackCodeValidated ==
    (/\ last.op = "HttpError.fromError"
     /\ last.error.kind # "HttpError"
     /\ last.fallbackArg # None
     /\ last.fallbackArg[1] \notin ErrorRange)
    => last.thrown = Some("RangeError") /\ last.result = None

\* C10: fromError on an HttpError, with fallbackCode omitted or in 400..599,
\* returns the very instance it was given, builds nothing and leaves
\* every instance as it was.
C10_PassThrough ==
    [][(/\ last'.op = "HttpError.fromError"
        /\ last'.error.kind = "HttpError"
        /\ (last'.fallbackArg = None \/ last'.fallbackArg[1] \in ErrorRange))
       => /\ last'.thrown = None
          /\ last'.result = Some(last'.error.ref)
          /\ heap' = heap]_vars

\* fromError applied to the result of an earlier fromError
C10_Witness ==
    /\ last.op = "HttpError.fromError"
    /\ last.error.kind = "HttpError"
    /\ last.fallbackArg = Some(400)
    /\ last.result = Some(last.error.ref)
    /\ LastError.cause # None
    /\ LastError.code = 500

(***************************************************************************)
(* Properties of the envelope builders, checked under SpecEnvelope and     *)
(* SpecSuccess.                                                            *)
(***************************************************************************)
\* the envelope error() builds for the same instance and includeStack when
\* no additionalFields are passed
WithoutAdditionalFields ==
    HttpResponse_error(heap[last.error],
                       Without(last.config, {"additionalFields"}),
                       currentConfig).value[1]

\* C3: error(e, {additionalFields}) raises nothing; success is false,
\* status_code is e.code, each protected key is present exactly when it is
\* without additionalFields and has the same value, and every other key of
\* additionalFields is in the envelope with the value supplied.
C3_ProtectedKeysWin ==
    (/\ last.op = "HttpResponse.error"
     /\ Opt(last.config, "additionalFields") # None)
    => LET envelope == last.result[1]
           supplied == last.config.additionalFields[1]
       IN  /\ last.thrown = None
           /\ envelope.success = FALSE
           /\ envelope.status_code = heap[last.error].code
           /\ \A k \in ProtectedKeys :
                /\ k \in DOMAIN envelope <=> k \in DOMAIN WithoutAdditionalFields
                /\ k \in DOMAIN envelope => envelope[k] = WithoutAdditionalFields[k]
           /\ \A k \in DOMAIN supplied \ ProtectedKeys :
                k \in DOMAIN envelope /\ envelope[k] = supplied[k]

\* an envelope built with all six protected keys and one other key supplied
C3_Witness ==
    /\ last.op = "HttpResponse.error"
    /\ Opt(last.config, "additionalFields") # None
    /\ ProtectedKeys \subseteq DOMAIN last.config.additionalFields[1]
    /\ last.result[1].status_code = 400
    /\ last.result[1].custom_field = "safe"
    /\ "retry_after" \notin DOMAIN last.result[1]

\* C7: without totalPages, paginated() echoes limit > 0 ? limit : 1 and
\* total_pages is the finite ceiling of total over that limit.
C7_LimitClamped ==
    (/\ last.op = "HttpResponse.paginated"
     /\ "totalPages" \notin DOMAIN last.pagination)
    => LET out == last.result[1].metadata.pagination
           limit == IF last.pagination.limit > 0 THEN last.pagination.limit ELSE 1
       IN  /\ out.limit = limit
           /\ out.total_pages.kind = "finite"
           /\ (out.total_pages.n - 1) * limit < last.pagination.total
           /\ last.pagination.total <= out.total_pages.n * limit

\* page 1, limit 0, total 10 gives limit 1 and total_pages 10
C7_Witness ==
    /\ last.op = "HttpResponse.paginated"
    /\ last.pagination = [page |-> 1, limit |-> 0, total |-> 10]
    /\ last.result[1].metadata.pagination.limit = 1
    /\ last.result[1].metadata.pagination.total_pages = Finite(10)

SuccessOps ==
    {"HttpResponse.success", "HttpResponse.ok", "HttpResponse.created",
     "HttpResponse.accepted", "HttpResponse.partialContent",
     "HttpResponse.noContent", "HttpResponse.notModified"}

\* C8: for statusCode 204, 205 and 304 the success envelope has no data
\* field; for any other status code data that is neither null nor undefined
\* is in the envelope as supplied.
C8_NoBodyCodesOmitData ==
    last.op \in SuccessOps =>
        LET statusCode == IF Opt(last.config, "statusCode") = None THEN 200
                          ELSE last.config.statusCode[1]
            data == Opt(last.config, "data")
        IN  IF statusCode \in {204, 205, 304}
            THEN "data" \notin DOMAIN last.result[1]
            ELSE (data # None /\ data[1].kind # "null") =>
                    /\ "data" \in DOMAIN last.result[1]
                    /\ last.result[1].data = data[1]

\* success({statusCode: 304, data: 'should be excluded'})
C8_Witness ==
    /\ last.op = "HttpResponse.success"
    /\ Opt(last.config, "statusCode") = Some(304)
    /\ Opt(last.config, "data") = Some([kind |-> "string", str |-> "should be excluded"])
    /\ "data" \notin DOMAIN last.result[1]


(***************************************************************************)
(* Conversion of foreign values, checked under Spec.                       *)
(***************************************************************************)
\* C11: fromError on a value that is not an HttpError, with fallbackCode
\* omitted (500) or in 400..599, throws nothing and returns a new HttpError
\* whose code is fallbackCode; an Error gives its message and becomes the
\* cause, any other value gives String(value) and no cause; a custom message
\* configured for fallbackCode does not replace the copied message.
C11_FromErrorWraps ==
    (/\ last.op = "HttpError.fromError"
     /\ last.error.kind # "HttpError"
     /\ (last.fallbackArg = None \/ last.fallbackArg[1] \in ErrorRange))
    => LET fallbackCode == IF last.fallbackArg = None THEN 500 ELSE last.fallbackArg[1]
       IN  /\ last.thrown = None
           /\ last.result # None
           /\ LastError.code = fallbackCode
           /\ IF last.error.kind = "Error"
              THEN /\ LastError.message = last.error.message
                   /\ LastError.cause = Some(last.error)
              ELSE /\ LastError.message = String(last.error)
                   /\ LastError.cause = None


C13_StackOnRequest ==
    last.op = "HttpResponse.error"
    => LET e == heap[last.error]
           body == last.result[1].error
           includeStack == Opt(last.config, "includeStack")
       IN  /\ "stack" \in DOMAIN body <=>
                \/ includeStack = Some(TRUE)
                \/ includeStack = None /\ currentConfig.isDevelopment = Some(TRUE)
           /\ "stack" \in DOMAIN body => body.stack = e.stack
           /\ Prop(body, "details") # Some(e.stack)

\* includeStack: false in development mode, and no stack in the body
C13_Witness ==
    /\ last.op = "HttpResponse.error"
    /\ Opt(last.config, "includeStack") = Some(FALSE)
    /\ currentConfig.isDevelopment = Some(TRUE)
    /\ "stack" \notin DOMAIN last.result[1].error


(***************************************************************************)
(* The store's defaults and the environment, checked under SpecConfig.     *)
(***************************************************************************)
\* C14: right after resetConfig() the store is at its built-in defaults:
\* timestamps are on, no code has a custom message, no transformer is set,
\* isDevelopment is not set, so that isDevelopment() is the environment's
\* signal, and an HttpError constructed now has its definition's details as
\* message.
C14_ResetRestoresDefaults ==
    last.op = "resetConfig" =>
        /\ shouldIncludeTimestamp(currentConfig)
        /\ getResponseTransformer(currentConfig) = None
        /\ isDevelopment(currentConfig) = (nodeEnv = "development")
        /\ \A code \in StoreCodes :
            /\ getCustomMessage(currentConfig, code) = None
            /\ HttpError(code, EmptyObject, currentConfig).value[1].message =
                    HttpErrorDefinitions[code].details

\* C15: isDevelopment() returns the value configure() supplied last since
\* the import or the last resetConfig(); when there is none it returns
\* whether NODE_ENV is 'development' at the time of the call.
C15_LazyDevelopmentSignal ==
    last.op = "isDevelopment" =>
        last.result = IF devConfigured # None THEN devConfigured[1]
                      ELSE (nodeEnv = "development")


(***************************************************************************)
(* The definition tables, checked under Spec.                              *)
(***************************************************************************)
\* C16: in each of the four tables every entry's code is the key the entry
\* is stored under, and for every key of a table the resolver returns a
\* definition with that code; an HttpError constructed for a key of the
\* error table has that code.
C16_TableKeysAreCodes ==
    /\ \A code \in DOMAIN HttpErrorDefinitions :
        /\ HttpErrorDefinitions[code].code = code
        /\ getErrorDefinition(code).code = code
    /\ \A code \in DOMAIN HttpSuccessDefinitions :
        /\ HttpSuccessDefinitions[code].code = code
        /\ getSuccessDefinition(code).code = code
    /\ \A code \in DOMAIN HttpRedirectDefinitions :
        /\ HttpRedirectDefinitions[code].code = code
        /\ getSuccessDefinition(code).code = code
    /\ \A code \in DOMAIN HttpInfoDefinitions :
        /\ HttpInfoDefinitions[code].code = code
        /\ getSuccessDefinition(code).code = code
    /\ (/\ last.op = "new HttpError"
        /\ last.code \in DOMAIN HttpErrorDefinitions
        /\ last.result # None)
       => LastError.code = last.code

\* an HttpError constructed for the key 429 of the error table
C16_Witness ==
    /\ last.op = "new HttpError"
    /\ last.code = HttpClientErrorCode.TOO_MANY_REQUESTS
    /\ last.code \in DOMAIN HttpErrorDefinitions
    /\ LastError.code = 429
    /\ LastError.type = "too_many_requests"


(***************************************************************************)
(* The status code of success envelopes, checked under SpecSuccess.        *)
(***************************************************************************)
\* the integers the resolver is probed with: all of -1..600
ProbedCodes == -1..600

\* C17: getSuccessDefinition(statusCode).code is statusCode for every integer,
\* in a table or not; success({statusCode}) throws nothing and returns
\* success true with status_code = statusCode, and status_code 200 when
\* statusCode is omitted.
C17_StatusCodeEchoed ==
    /\ \A code \in ProbedCodes : getSuccessDefinition(code).code = code
    /\ last.op \in SuccessOps =>
        /\ last.thrown = None
        /\ last.result[1].success = TRUE
        /\ last.result[1].status_code =
                IF Opt(last.config, "statusCode") = None THEN 200
                ELSE last.config.statusCode[1]

\* success({statusCode: 299}), a code in none of the tables
C17_Witness ==
    /\ last.op = "HttpResponse.success"
    /\ Opt(last.config, "statusCode") = Some(299)
    /\ 299 \notin DOMAIN HttpSuccessDefinitions
    /\ last.result[1].status_code = 299
    /\ last.result[1].success = TRUE


(***************************************************************************)
(* The response transformer, checked under SpecTransform.                  *)
(***************************************************************************)
\* the store with its responseTransformer taken out
Untransformed == Spread(currentConfig, [responseTransformer |-> None])

\* the envelope the most recent builder call shapes when no transformer is
\* configured
Shaped ==
    CASE last.op \in SuccessOps ->
            HttpResponse_success(last.config, Untransformed).value[1]
      [] last.op = "HttpResponse.paginated" ->
            HttpResponse_paginated(last.data, last.pagination, last.message,
                                   Untransformed).value[1]
      [] last.op = "HttpResponse.error" ->
            HttpResponse_error(heap[last.error], last.config, Untransformed).value[1]
      [] last.op = "HttpResponse.fromError" ->
            HttpResponse_fromError(last.error, last.config, Untransformed).value[1]

BuilderOps ==
    SuccessOps \cup {"HttpResponse.paginated", "HttpResponse.error",
                     "HttpResponse.fromError"}

\* C18: what success(), error(), paginated(), fromError() and the wrappers
\* return is the shaped envelope itself when no transformer is configured,
\* and otherwise the transformer's result on the shaped envelope, the
\* transformer having run once and after all shaping.
C18_TransformerRunsLast ==
    last.op \in BuilderOps =>
        /\ last.thrown = None
        /\ last.result[1] =
            IF currentConfig.responseTransformer = None THEN Shaped
            ELSE applyTransformer(currentConfig.responseTransformer[1], Shaped)

\* error() under the wrapping transformer: the payload is the whole shaped
\* envelope, with timestamp, retry_after, metadata and the filtered
\* additionalFields in it
C18_Witness ==
    /\ last.op = "HttpResponse.error"
    /\ currentConfig.responseTransformer = Some("wrapPayload")
    /\ DOMAIN last.result[1] = {"payload"}
    /\ {"timestamp", "retry_after", "metadata", "custom_field"}
            \subseteq DOMAIN last.result[1].payload
    /\ last.result[1].payload.status_code = 429
    /\ last.result[1].payload.retry_after = 120


(***************************************************************************)
(* The retry hint, checked under SpecRetry and SpecEnvelope.               *)
(***************************************************************************)
\* the default retry hint of a code: 60 for 429 and 503, none otherwise
DefaultRetryAfter(code) == IF code \in {429, 503} THEN Some(60) ELSE None

FactoryOps ==
    {"HttpError.notFound", "HttpError.tooManyRequests", "HttpError.serviceUnavailable"}

\* C19: the retryAfter of an HttpError built for a code in 400..599 is the
\* retryAfter given, in options or as the parameter of tooManyRequests and
\* serviceUnavailable, and otherwise the default hint of the code: 60 for
\* 429 and 503, none for any other code, with or without a table entry.
C19_RetryAfterDefaulted ==
    /\ (last.op = "new HttpError" /\ last.code \in ErrorRange /\ last.result # None)
       => LastError.retryAfter =
            IF Opt(last.options, "retryAfter") # None THEN last.options.retryAfter
            ELSE DefaultRetryAfter(last.code)
    /\ (last.op \in FactoryOps /\ last.result # None)
       => LastError.retryAfter =
            IF last.retryAfter # None THEN last.retryAfter
            ELSE DefaultRetryAfter(last.code)

\* serviceUnavailable('Down', 0): the hint given is zero and it is kept
C19_Witness ==
    /\ last.op = "HttpError.serviceUnavailable"
    /\ last.retryAfter = Some(0)
    /\ LastError.code = 503
    /\ LastError.retryAfter = Some(0)


\* C20: the envelope error(e) has a top-level retry_after exactly when
\* e.retryAfter is defined, and then retry_after is e.retryAfter.
C20_RetryAfterCarried ==
    last.op = "HttpResponse.error"
    => LET e == heap[last.error]
           envelope == last.result[1]
       IN  /\ "retry_after" \in DOMAIN envelope <=> e.retryAfter # None
           /\ e.retryAfter # None => envelope.retry_after = e.retryAfter[1]


(***************************************************************************)
(* Properties of the instances and of converted values, checked under      *)
(* SpecInstance.                                                           *)
(***************************************************************************)
\* C21: HttpResponse.fromError(value, config) returns the envelope of
\* HttpError.fromError(value, config.fallbackCode): for a value that is not
\* an HttpError, status_code is config.fallbackCode when one in 400..599 is
\* given and 500 when none is given, and error.message is the value's
\* message; for an HttpError, status_code is the code of that error.
C21_EnvelopeOfConverted ==
    (last.op = "HttpResponse.fromError"
        /\ Nullish(Opt(last.config, "fallbackCode"), Some(500))[1] \in ErrorRange) =>
        /\ last.thrown = None
        /\ last.result # None
        /\ IF last.error.kind = "HttpError"
           THEN last.result[1].status_code = heap[last.error.ref].code
           ELSE /\ last.result[1].status_code =
                        Nullish(Opt(last.config, "fallbackCode"), Some(500))[1]
                /\ last.result[1].error.message =
                        IF last.error.kind = "Error" THEN last.error.message
                        ELSE String(last.error)


\* C22: toJSON() returns an object with exactly the keys name, code, type,
\* title, message, details, metadata and retryAfter, each of them equal to
\* the field of the error (name is "HttpError"), details being the
\* description of the definition of the error's code.
C22_SerializesEveryField ==
    last.op = "toJSON" =>
        LET this == heap[last.error]
            json == last.result[1] IN
        /\ DOMAIN json = {"name", "code", "type", "title", "message",
                          "details", "metadata", "retryAfter"}
        /\ json.name = "HttpError"
        /\ json.code = this.code
        /\ json.type = this.type
        /\ json.title = this.title
        /\ json.message = this.message
        /\ json.details = getErrorDefinition(this.code).details
        /\ json.metadata = this.metadata
        /\ json.retryAfter = this.retryAfter


\* C25: isClientError() answers whether 400 <= code < 500, isServerError()
\* whether 500 <= code < 600, and of every HttpError constructed exactly one
\* of the two is true.
C25_ClientOrServer ==
    /\ last.op = "isClientError" =>
            last.answer = (heap[last.error].code \in 400..499)
    /\ last.op = "isServerError" =>
            last.answer = (heap[last.error].code \in 500..599)
    /\ \A ref \in DOMAIN heap :
            HttpError_isClientError(heap[ref]) # HttpError_isServerError(heap[ref])

\* a 404 and a 500 on the heap, the 500 asked whether it is a client error
C25_Witness ==
    /\ last.op = "isClientError"
    /\ heap[last.error].code = 500
    /\ last.answer = FALSE
    /\ \E ref \in DOMAIN heap :
            heap[ref].code = 404 /\ HttpError_isClientError(heap[ref])

\* C28: every HttpError constructed has a code in 400..599 and every
\* envelope of error() and fromError() a status_code in 400..599; a call to
\* the constructor, to HttpError.fromError or to HttpResponse.fromError
\* that asks for a code outside 400..599 throws a RangeError and returns
\* neither an HttpError nor an envelope.
C28_NoCodeOutsideRange ==
    /\ \A ref \in DOMAIN heap : heap[ref].code \in ErrorRange
    /\ (last.op \in {"HttpResponse.error", "HttpResponse.fromError"}
            /\ last.result # None) =>
            last.result[1].status_code \in ErrorRange
    /\ (last.op = "new HttpError" /\ last.code \notin ErrorRange) =>
            last.thrown = Some("RangeError") /\ last.result = None
    /\ (/\ last.op = "HttpError.fromError"
        /\ last.error.kind # "HttpError"
        /\ Nullish(last.fallbackArg, Some(500))[1] \notin ErrorRange) =>
            last.thrown = Some("RangeError") /\ last.result = None
    /\ (/\ last.op = "HttpResponse.fromError"
        /\ last.error.kind # "HttpError"
        /\ Nullish(Opt(last.config, "fallbackCode"), Some(500))[1] \notin ErrorRange) =>
            last.thrown = Some("RangeError") /\ last.result = None

(***************************************************************************)
(* Properties of the paginated envelope, checked under SpecSuccess.        *)
(***************************************************************************)
\* C23: paginated() echoes page and total; total_pages is the totalPages
\* supplied when one is supplied and the ceiling of total over the effective
\* limit otherwise; has_next is page < total_pages and has_prev is page > 1.
C23_PageArithmetic ==
    last.op = "HttpResponse.paginated" =>
        LET in == last.pagination
            out == last.result[1].metadata.pagination
            limit == IF in.limit > 0 THEN in.limit ELSE 1
        IN  /\ out.page = in.page
            /\ out.total = in.total
            /\ out.total_pages.kind = "finite"
            /\ IF "totalPages" \in DOMAIN in
               THEN out.total_pages.n = in.totalPages[1]
               ELSE /\ (out.total_pages.n - 1) * limit < in.total
                    /\ in.total <= out.total_pages.n * limit
            /\ out.has_next = (in.page < out.total_pages.n)
            /\ out.has_prev = (in.page > 1)

\* page 2, limit 3, total 10 gives total_pages 4, has_next and has_prev
C23_Witness ==
    /\ last.op = "HttpResponse.paginated"
    /\ last.pagination = [page |-> 2, limit |-> 3, total |-> 10]
    /\ last.result[1].metadata.pagination.total_pages = Finite(4)
    /\ last.result[1].metadata.pagination.has_next
    /\ last.result[1].metadata.pagination.has_prev


(***************************************************************************)
(* Properties of the store under successive calls, checked under           *)
(* SpecConfig.                                                             *)
(***************************************************************************)
\* C24: configure(partial) leaves every field that partial does not have as
\* it was, sets isDevelopment, includeTimestamp and responseTransformer to
\* the value partial has for them, adds no field, and a second configure()
\* with the same partial changes nothing.
C24_ConfigureFrame ==
    [][last'.op = "configure" =>
        LET partial == last'.config IN
        /\ DOMAIN currentConfig' = DOMAIN currentConfig
        /\ \A field \in DOMAIN currentConfig \ DOMAIN partial :
                currentConfig'[field] = currentConfig[field]
        /\ \A field \in {"isDevelopment", "includeTimestamp", "responseTransformer"}
                            \cap DOMAIN partial :
                currentConfig'[field] = partial[field]
        /\ (last.op = "configure" /\ last.config = partial) =>
                currentConfig' = currentConfig]_vars

\* configure({ includeTimestamp: false }) after a custom message and a
\* transformer were configured: both are still there
C24_Witness ==
    /\ last.op = "configure"
    /\ last.config = [includeTimestamp |-> Some(FALSE)]
    /\ currentConfig.includeTimestamp = Some(FALSE)
    /\ currentConfig.responseTransformer = Some("addCustomHeader")
    /\ currentConfig.customMessages = Some([code \in {404} |-> "A"])
    /\ currentConfig.isDevelopment = Some(TRUE)
    /\ nodeEnv = "production"


\* C27: no call changes an instance that exists, configure() and
\* resetConfig() in particular; an envelope built from an instance carries
\* the code, type, title and message the instance got at construction; and
\* an instance gets the custom message that is in the store when it is
\* constructed.
C27_FieldsFixed ==
    [][/\ Len(heap') >= Len(heap)
       /\ SubSeq(heap', 1, Len(heap)) = heap
       /\ last'.op \in {"configure", "resetConfig"} => heap' = heap
       /\ last'.op = "HttpResponse.error" =>
            LET e == heap[last'.error]
                envelope == last'.result[1] IN
            /\ envelope.status_code = e.code
            /\ envelope.error.type = e.type
            /\ envelope.error.title = e.title
            /\ envelope.error.message = e.message
       /\ (last'.op = "new HttpError" /\ last'.result # None) =>
            heap'[last'.result[1]].message =
                Nullish(getCustomMessage(currentConfig, last'.code),
                        Some(getErrorDefinition(last'.code).details))[1]]_vars

\* a 404 constructed before configure({ customMessages: { 404: "A" } }) and
\* a 404 constructed after it: the envelope of the first has the message of
\* the definition
C27_Witness ==
    /\ Len(heap) = 2
    /\ heap[1].code = 404 /\ heap[1].message = getErrorDefinition(404).details
    /\ heap[2].code = 404 /\ heap[2].message = "A"
    /\ getCustomMessage(currentConfig, 404) = Some("A")
    /\ last.op = "HttpResponse.error"
    /\ last.error = 1
    /\ last.result[1].error.message = getErrorDefinition(404).details

(***************************************************************************)
(* Properties of the builders under a store that changes between calls,    *)
(* checked under SpecTransform.                                            *)
(***************************************************************************)
\* the envelope the most recent builder call shaped, taken out of the
\* wrapping transformer's result when that transformer is configured
BuiltEnvelope ==
    IF currentConfig.responseTransformer = Some("wrapPayload")
    THEN last.result[1].payload ELSE last.result[1]

\* C26: success(), its wrappers and error() put a timestamp into the
\* envelope exactly when includeTimestamp is true in the store at the call,
\* whatever the store held when the error was constructed or at any
\* earlier call.
C26_TimestampAtBuildTime ==
    last.op \in SuccessOps \cup {"HttpResponse.error"} =>
        ("timestamp" \in DOMAIN BuiltEnvelope
            <=> currentConfig.includeTimestamp = Some(TRUE))

\* error() on an instance of the heap while includeTimestamp is false: no
\* timestamp, the rest of the envelope is there
C26_Witness ==
    /\ last.op = "HttpResponse.error"
    /\ currentConfig.includeTimestamp = Some(FALSE)
    /\ currentConfig.responseTransformer = None
    /\ heap[last.error].retryAfter = Some(120)
    /\ DOMAIN last.result[1] = {"success", "status_code", "error", "retry_after", "metadata"}


(***************************************************************************)
(* Properties of the error envelope's key set, checked under SpecEnvelope. *)
(***************************************************************************)
\* C29: in the result of error(), success, status_code and error are
\* present, timestamp is present exactly when includeTimestamp is true in
\* the store, metadata exactly when the error has metadata, and retry_after
\* is absent when the error has no retry hint, whatever additionalFields
\* holds; the protected keys present are the same for every
\* additionalFields that could have been passed with the same error under
\* the same configuration.
C29_NoProtectedKeyIntroduced ==
    last.op = "HttpResponse.error" =>
        LET e == heap[last.error]
            present == DOMAIN last.result[1] \cap ProtectedKeys IN
        /\ {"success", "status_code", "error"} \subseteq present
        /\ "timestamp" \in present <=> currentConfig.includeTimestamp = Some(TRUE)
        /\ "metadata" \in present <=> e.metadata # None
        /\ e.retryAfter = None => "retry_after" \notin present
        /\ \A other \in AdditionalFieldSets :
                DOMAIN HttpResponse_error(e, [additionalFields |-> Some(other)],
                                          currentConfig).value[1] \cap ProtectedKeys
                    = present

\* includeTimestamp false, an error without retry hint and without
\* metadata, all six protected keys supplied: the envelope has the three
\* keys of every envelope and the one unprotected key
C29_Witness ==
    /\ last.op = "HttpResponse.error"
    /\ currentConfig.includeTimestamp = Some(FALSE)
    /\ currentConfig.responseTransformer = None
    /\ heap[last.error].retryAfter = None
    /\ heap[last.error].metadata = None
    /\ Opt(last.config, "additionalFields") # None
    /\ {"timestamp", "retry_after", "metadata"}
            \subseteq DOMAIN last.config.additionalFields[1]
    /\ DOMAIN last.result[1] = {"success", "status_code", "error", "custom_field"}


(***************************************************************************)
(* Properties of the objects getConfig() returns, checked under            *)
(* SpecSnapshot.                                                           *)
(***************************************************************************)
\* C30: getConfig() returns the contents of the store; configure() and
\* resetConfig() change nothing of an object getConfig() returned before,
\* and a write to such an object or to its customMessages map changes
\* neither the store nor the defaults that resetConfig() restores.
C30_SnapshotIsolated ==
    [][/\ last'.op = "getConfig" => snapshot' = Some(currentConfig)
       /\ last'.op \in {"configure", "resetConfig"} => snapshot' = snapshot
       /\ last'.op \in {"snapshot[field] = value",
                        "snapshot.customMessages[code] = message"} =>
            currentConfig' = currentConfig /\ defaultConfig' = defaultConfig]_vars

====
